---- MODULE Spec2Model ----
(***************************************************************************)
(* Witness complex construction (Gudhi, Witness_complex.h).                *)
(*                                                                         *)
(* A Witness_complex object holds landmarks (ids 0..nbL-1) and witnesses;  *)
(* each witness is seen through its nearest-landmark ranking, a sequence   *)
(* of (landmark id, squared distance) pairs, nearest first.                *)
(* create_complex fills a target simplicial complex dimension by dimension;*)
(* add_all_faces_of_dimension is the recursive search run for one witness  *)
(* in one pass, all_faces_in the facet check of a candidate simplex.       *)
(*                                                                         *)
(* Squared distances, relaxations and filtration values are integers here; *)
(* the code only compares, subtracts and copies them.                      *)
(*                                                                         *)
(* The target complex and the Active_witness cursor are collaborators of   *)
(* Witness_complex.h. The complex is modelled by its contract: a vertex    *)
(* list names the set of its vertices, find looks that set up, and         *)
(* insert_simplex adds it with the given filtration value unless it is     *)
(* already present, in which case nothing changes. A ranking is a finite   *)
(* sequence; begin is its first position and end the position after the    *)
(* last.                                                                   *)
(***************************************************************************)
EXTENDS Integers, Sequences, FiniteSets, TLC

\* ------------------------------------------------------------------ bounds
MaxLandmarks == 3
MaxWitnesses == 2
MaxDist == 1
MaxAlpha == 1
MaxLimit == 2
WideLandmarks == 4

\* ------------------------------------------------------- program constants
\* std::numeric_limits<Landmark_id>::max(), the default limit_dimension
NoLimit == 2147483647
\* std::numeric_limits<double>::infinity(), the initial norelax_dist2
Infinity == 1000000

VARIABLES
  nbL,               \* landmarks_.size()
  witnesses_,        \* one nearest-landmark ranking per witness
  complex,           \* target complex: simplex (set of ids) -> filtration
  dimension,         \* dimension declared on the target complex
  max_alpha_square,  \* argument of the current / last call
  limit_dimension,   \* argument of the current / last call
  pc,                \* position inside create_complex ("idle" between calls)
  i,                 \* loop variable of the seeding loop
  k,                 \* current dimension in iterative construction
  active_witnesses,  \* list of witness indices still active
  aw_it,             \* position in active_witnesses
  returned,          \* "none" | "true" | "false": value of the last call
  cerr,              \* what the last call wrote to std::cerr
  pre,               \* target complex and dimension at entry of the call
  ops,               \* insert_simplex / set_dimension performed by the call
  scBefore,          \* target complex before the last per-witness search
  handed,            \* vertex lists given to find / insert_simplex by it
  handedBy,          \* ranking of the witness of the last search
  inserted,          \* insert_simplex calls of the last search, in order
  derefs,            \* cursor positions dereferenced by the last search
  hist               \* active witnesses after each completed pass

vars == <<nbL, witnesses_, complex, dimension, max_alpha_square,
          limit_dimension, pc, i, k, active_witnesses, aw_it, returned,
          cerr, pre, ops, scBefore, handed, handedBy, inserted, derefs, hist>>

\* ----------------------------------------------------------------- helpers
Range(s) == {s[j] : j \in 1..Len(s)}

RemoveAt(s, n) == [j \in 1..(Len(s) - 1) |-> IF j < n THEN s[j] ELSE s[j + 1]]

\* the element of a singleton set
Only(S) == CHOOSE x \in S : TRUE

SetMax(S) == CHOOSE x \in S : \A y \in S : y <= x

\* A ranking lists every landmark once, by non-decreasing squared distance.
Rankings(n, d) ==
  {r \in [1..n -> [first : 0..(n - 1), second : 0..d]] :
     /\ \A a, b \in 1..n : a # b => r[a].first # r[b].first
     /\ \A a, b \in 1..n : a < b => r[a].second <= r[b].second}

WitnessLists(n, d) == UNION {[1..m -> Rankings(n, d)] : m \in 1..MaxWitnesses}

\* The witness lists whose first ranking meets the landmarks in the order of
\* their ids. The code uses a landmark id only as a name (it never compares
\* two ids), so every witness list is one of these up to a renaming of the
\* landmarks.
WideWitnessLists(n, d) ==
  {W \in WitnessLists(n, d) : \A p \in 1..n : W[1][p].first = p - 1}

\* What a read through the end iterator of a ranking may yield.
Garbage == {[first |-> 0, second |-> 0], [first |-> 0, second |-> Infinity]}

\* ------------------------------------------ target complex (collaborator)
EmptyComplex == [S \in {} |-> 0]

num_vertices(sc) == Cardinality({S \in DOMAIN sc : Cardinality(S) = 1})

find(sc, vv) == Range(vv) \in DOMAIN sc

filtration(sc, vv) == sc[Range(vv)]

insert_simplex(sc, vv, fv) ==
  IF Range(vv) \in DOMAIN sc THEN sc ELSE (Range(vv) :> fv) @@ sc

\* ------------------------------------------------------------ Active witness
begin(rk) == 1

end(rk) == Len(rk) + 1

\* *l_it; past the end the read yields whatever lies there
Deref(rk, l_it, g) == IF l_it < end(rk) THEN rk[l_it] ELSE g

\* --------------------------------------------------------------- all_faces_in
\* mutant: the candidate keeps its own value
keep_filtration(facet_fv, filtration_value) == filtration_value

raise_filtration(facet_fv, filtration_value) ==
  IF facet_fv > filtration_value THEN facet_fv ELSE filtration_value

\* mutant: a missing facet is skipped instead of rejecting the candidate
RECURSIVE all_faces_in_skipping(_, _, _, _, _)
all_faces_in_skipping(simplex, not_it, filtration_value, sc, h) ==
  IF not_it > Len(simplex)
    THEN [ok |-> TRUE, fv |-> filtration_value, handed |-> h]
    ELSE LET facet == RemoveAt(simplex, not_it)
             h1 == h \cup {facet}
         IN IF ~find(sc, facet)
              THEN all_faces_in_skipping(simplex, not_it + 1, filtration_value,
                                         sc, h1)
              ELSE all_faces_in_skipping(simplex, not_it + 1,
                                         raise_filtration(filtration(sc, facet),
                                                          filtration_value),
                                         sc, h1)

\* mutant: a candidate that is already in the complex is rejected
RECURSIVE all_faces_in_if_new(_, _, _, _, _)
all_faces_in_if_new(simplex, not_it, filtration_value, sc, h) ==
  IF find(sc, simplex)
    THEN [ok |-> FALSE, fv |-> filtration_value, handed |-> h]
    ELSE IF not_it > Len(simplex)
      THEN [ok |-> TRUE, fv |-> filtration_value, handed |-> h]
      ELSE LET facet == RemoveAt(simplex, not_it)
               h1 == h \cup {facet}
           IN IF ~find(sc, facet)
                THEN [ok |-> FALSE, fv |-> filtration_value, handed |-> h1]
                ELSE all_faces_in_if_new(simplex, not_it + 1,
                                         raise_filtration(filtration(sc, facet),
                                                          filtration_value),
                                         sc, h1)

RECURSIVE all_faces_in(_, _, _, _, _)
all_faces_in(simplex, not_it, filtration_value, sc, h) ==
  IF not_it > Len(simplex)
    THEN [ok |-> TRUE, fv |-> filtration_value, handed |-> h]
    ELSE LET facet == RemoveAt(simplex, not_it)
             h1 == h \cup {facet}
         IN IF ~find(sc, facet)
              THEN [ok |-> FALSE, fv |-> filtration_value, handed |-> h1]
              ELSE all_faces_in(simplex, not_it + 1,
                                raise_filtration(filtration(sc, facet),
                                                 filtration_value),
                                sc, h1)

\* ------------------------------------------------ add_all_faces_of_dimension
\* mutant: the landmark is put in front
push_front(simplex, v) == <<v>> \o simplex

push_back(simplex, v) == Append(simplex, v)

\* mutant: the relaxation is added instead of subtracted
scan_continues_plus(second, alpha2, norelax_dist2, l_it, end_it) ==
  second + alpha2 <= norelax_dist2 /\ l_it # end_it

scan_continues(second, alpha2, norelax_dist2, l_it, end_it) ==
  second - alpha2 <= norelax_dist2 /\ l_it # end_it

\* the filtration value a leaf candidate starts from
leaf_filtration(second, norelax_dist2) ==
  IF second > norelax_dist2 THEN second - norelax_dist2 ELSE 0

tighten_interior(second, norelax_dist2) ==
  IF second <= norelax_dist2 THEN second ELSE norelax_dist2

tighten_leaf(second, norelax_dist2) ==
  IF second < norelax_dist2 THEN second ELSE norelax_dist2

\* mutant: the flag is never set
leaf_never_active(faces_ok, will_be_active) == will_be_active

\* will_be_active after the facet check of a leaf candidate
leaf_active(faces_ok, will_be_active) == faces_ok \/ will_be_active

\* e: [sc, handed, inserted, derefs], threaded through the search
RECURSIVE add_all_faces_of_dimension(_, _, _, _, _, _, _, _)
RECURSIVE scan_interior(_, _, _, _, _, _, _, _, _)
RECURSIVE scan_leaf(_, _, _, _, _, _, _, _)

\* (r1 and r2, the results of the two recursive calls, are bound as the
\* elements of singleton sets: each call is evaluated once, in program order)
scan_interior(dim, alpha2, norelax_dist2, l_it, simplex, will_be_active, e, rk, g) ==
  LET cur == Deref(rk, l_it, g)
      e0 == [e EXCEPT !.derefs = @ \cup {l_it}]
  IN IF ~scan_continues(cur.second, alpha2, norelax_dist2, l_it, end(rk))
       THEN [ret |-> will_be_active, env |-> e0]
       ELSE
         LET s1 == push_back(simplex, cur.first)
             e1 == [e0 EXCEPT !.handed = @ \cup {s1}]
             found == find(e1.sc, s1)
             nr == tighten_interior(cur.second, norelax_dist2)
         IN Only({
              Only({
                scan_interior(dim, alpha2, nr, l_it + 1, simplex,
                              r2.ret \/ (IF found THEN r1.ret \/ will_be_active
                                                  ELSE will_be_active),
                              r2.env, rk, g)
                : r2 \in {add_all_faces_of_dimension(dim, alpha2, nr, l_it + 1,
                                                     simplex, r1.env, rk, g)}})
              : r1 \in {IF found
                          THEN add_all_faces_of_dimension(dim - 1, alpha2,
                                                          norelax_dist2, l_it + 1,
                                                          s1, e1, rk, g)
                          ELSE [ret |-> FALSE, env |-> e1]}})

scan_leaf(alpha2, norelax_dist2, l_it, simplex, will_be_active, e, rk, g) ==
  LET cur == Deref(rk, l_it, g)
      e0 == [e EXCEPT !.derefs = @ \cup {l_it}]
  IN IF ~scan_continues(cur.second, alpha2, norelax_dist2, l_it, end(rk))
       THEN [ret |-> will_be_active, env |-> e0]
       ELSE
         LET s1 == push_back(simplex, cur.first)
             nr == tighten_leaf(cur.second, norelax_dist2)
         IN Only({
              scan_leaf(alpha2, nr, l_it + 1, simplex,
                        leaf_active(fa.ok, will_be_active),
                        IF fa.ok
                          THEN [e0 EXCEPT !.sc = insert_simplex(@, s1, fa.fv),
                                          !.handed = fa.handed,
                                          !.inserted = Append(@, <<s1, fa.fv>>)]
                          ELSE [e0 EXCEPT !.handed = fa.handed],
                        rk, g)
              : fa \in {all_faces_in(s1, 1,
                                     leaf_filtration(cur.second, norelax_dist2),
                                     e0.sc, e0.handed \cup {s1})}})

add_all_faces_of_dimension(dim, alpha2, norelax_dist2, curr_l, simplex, e, rk, g) ==
  IF curr_l = end(rk)
    THEN [ret |-> FALSE, env |-> e]
    ELSE IF dim > 0
      THEN scan_interior(dim, alpha2, norelax_dist2, curr_l, simplex, FALSE, e, rk, g)
      ELSE IF dim = 0
        THEN scan_leaf(alpha2, norelax_dist2, curr_l, simplex, FALSE, e, rk, g)
        ELSE [ret |-> FALSE, env |-> e]

\* the call create_complex makes for one active witness in pass dim
search(dim, alpha2, sc, rk, g) ==
  add_all_faces_of_dimension(dim, alpha2, Infinity, begin(rk), <<>>,
                             [sc |-> sc, handed |-> {}, inserted |-> <<>>,
                              derefs |-> {}],
                             rk, g)

\* ----------------------------------------------------------- create_complex
\* mutant: the sign of the relaxation is not checked
error_message_no_alpha(sc, alpha2, limit) ==
  IF num_vertices(sc) > 0 THEN "complex is not empty"
  ELSE IF limit < 0 THEN "limit dimension must be non-negative"
  ELSE ""

\* the message of the first precondition that fails, "" when none does
error_message(sc, alpha2, limit) ==
  IF num_vertices(sc) > 0 THEN "complex is not empty"
  ELSE IF alpha2 < 0 THEN "squared relaxation parameter must be non-negative"
  ELSE IF limit < 0 THEN "limit dimension must be non-negative"
  ELSE ""

\* mutant: an idle witness is not erased
erase_never(ok, list, at) == list

\* active_witnesses.erase(aw_it++) when the search reported nothing
erase_if_idle(ok, list, at) ==
  IF ok THEN list ELSE RemoveAt(list, at)

advance(ok, at) == IF ok THEN at + 1 ELSE at

loop_continues(list, dim, limit) == list # <<>> /\ dim <= limit

Alphas == (-1)..MaxAlpha

Limits == ((-1)..MaxLimit) \cup {NoLimit}

\* the target complex is empty and no call has been made
Start ==
  /\ complex = EmptyComplex
  /\ dimension = -1
  /\ max_alpha_square = 0
  /\ limit_dimension = 0
  /\ pc = "idle"
  /\ i = 0
  /\ k = 0
  /\ active_witnesses = <<>>
  /\ aw_it = 1
  /\ returned = "none"
  /\ cerr = ""
  /\ pre = [complex |-> EmptyComplex, dimension |-> -1]
  /\ ops = 0
  /\ scBefore = EmptyComplex
  /\ handed = {}
  /\ handedBy = <<>>
  /\ inserted = <<>>
  /\ derefs = {}
  /\ hist = <<>>

\* the constructor: landmarks and witnesses are recorded
Init ==
  /\ nbL \in 1..MaxLandmarks
  /\ witnesses_ \in WitnessLists(nbL, MaxDist)
  /\ Start

InitWide ==
  /\ nbL \in 1..WideLandmarks
  /\ witnesses_ \in WideWitnessLists(nbL, MaxDist)
  /\ Start

\* lines 123-135: a precondition fails, the call returns false
Reject ==
  /\ pc = "idle"
  /\ \E a \in Alphas, lim \in Limits :
       /\ error_message(complex, a, lim) # ""
       /\ cerr' = error_message(complex, a, lim)
  /\ returned' = "false"
  /\ pre' = [complex |-> complex, dimension |-> dimension]
  /\ ops' = 0
  /\ UNCHANGED <<nbL, witnesses_, complex, dimension, max_alpha_square,
                 limit_dimension, pc, i, k, active_witnesses, aw_it, scBefore,
                 handed, handedBy, inserted, derefs, hist>>

\* lines 123-137: the preconditions hold, the call goes on to the seeding loop
Accept ==
  /\ pc = "idle"
  /\ \E a \in Alphas, lim \in Limits :
       /\ error_message(complex, a, lim) = ""
       /\ max_alpha_square' = a
       /\ limit_dimension' = lim
  /\ returned' = "none"
  /\ cerr' = ""
  /\ pre' = [complex |-> complex, dimension |-> dimension]
  /\ ops' = 0
  /\ pc' = "seed"
  /\ i' = 0
  /\ k' = 0
  /\ active_witnesses' = <<>>
  /\ aw_it' = 1
  /\ hist' = <<>>
  /\ scBefore' = complex
  /\ handed' = {}
  /\ handedBy' = <<>>
  /\ inserted' = <<>>
  /\ derefs' = {}
  /\ UNCHANGED <<nbL, witnesses_, complex, dimension>>

\* lines 138-143: one iteration of the seeding loop
SeedVertex ==
  /\ pc = "seed"
  /\ i # nbL
  /\ complex' = insert_simplex(complex, <<i>>, 0)
  /\ handed' = {<<i>>}
  /\ ops' = ops + 1
  /\ i' = i + 1
  /\ UNCHANGED <<nbL, witnesses_, dimension, max_alpha_square, limit_dimension,
                 pc, k, active_witnesses, aw_it, returned, cerr, pre,
                 scBefore, handedBy, inserted, derefs, hist>>

\* lines 144-147: k = 1 and one active witness per witness
SeedDone ==
  /\ pc = "seed"
  /\ i = nbL
  /\ k' = 1
  /\ active_witnesses' = [j \in 1..Len(witnesses_) |-> j]
  /\ pc' = "loop"
  /\ UNCHANGED <<nbL, witnesses_, complex, dimension, max_alpha_square,
                 limit_dimension, i, aw_it, returned, cerr, pre, ops,
                 scBefore, handed, handedBy, inserted, derefs, hist>>

\* lines 148-151: the loop condition holds, a pass begins
PassBegin ==
  /\ pc = "loop"
  /\ loop_continues(active_witnesses, k, limit_dimension)
  /\ aw_it' = 1
  /\ pc' = "pass"
  /\ UNCHANGED <<nbL, witnesses_, complex, dimension, max_alpha_square,
                 limit_dimension, i, k, active_witnesses, returned, cerr,
                 pre, ops, scBefore, handed, handedBy, inserted, derefs, hist>>

\* lines 152-165: the search of one active witness, then erase or advance
WitnessStep ==
  /\ pc = "pass"
  /\ aw_it # Len(active_witnesses) + 1
  /\ \E g \in Garbage :
       LET rk == witnesses_[active_witnesses[aw_it]]
       IN \E r \in {search(k, max_alpha_square, complex, rk, g)} :
          /\ complex' = r.env.sc
          /\ handed' = r.env.handed
          /\ handedBy' = rk
          /\ inserted' = r.env.inserted
          /\ derefs' = r.env.derefs
          /\ ops' = ops + Len(r.env.inserted)
          /\ active_witnesses' = erase_if_idle(r.ret, active_witnesses, aw_it)
          /\ aw_it' = advance(r.ret, aw_it)
  /\ scBefore' = complex
  /\ UNCHANGED <<nbL, witnesses_, dimension, max_alpha_square, limit_dimension,
                 pc, i, k, returned, cerr, pre, hist>>

\* line 166: the pass is over
PassEnd ==
  /\ pc = "pass"
  /\ aw_it = Len(active_witnesses) + 1
  /\ k' = k + 1
  /\ hist' = Append(hist, Range(active_witnesses))
  /\ pc' = "loop"
  /\ UNCHANGED <<nbL, witnesses_, complex, dimension, max_alpha_square,
                 limit_dimension, i, active_witnesses, aw_it, returned, cerr,
                 pre, ops, scBefore, handed, handedBy, inserted, derefs>>

\* lines 148, 168-169: the loop is left, the dimension declared, true returned
Finish ==
  /\ pc = "loop"
  /\ ~loop_continues(active_witnesses, k, limit_dimension)
  /\ dimension' = k - 1
  /\ ops' = ops + 1
  /\ returned' = "true"
  /\ pc' = "idle"
  /\ UNCHANGED <<nbL, witnesses_, complex, max_alpha_square, limit_dimension,
                 i, k, active_witnesses, aw_it, cerr, pre, scBefore, handed,
                 handedBy, inserted, derefs, hist>>

Next ==
  \/ Reject
  \/ Accept
  \/ SeedVertex
  \/ SeedDone
  \/ PassBegin
  \/ WitnessStep
  \/ PassEnd
  \/ Finish

Spec == Init /\ [][Next]_vars

\* A call, once entered, runs to its return: create_complex is sequential code.
Step == SeedVertex \/ SeedDone \/ PassBegin \/ WitnessStep \/ PassEnd \/ Finish

SpecFair == Spec /\ WF_vars(Step)

\* one more landmark, witness lists up to a renaming of the landmarks
SpecWide == InitWide /\ [][Next]_vars

\* ------------------------------------------- create_complex as a function
\* The same code, run in one go for given inputs; keep = TRUE is the variant
\* that never erases a witness from active_witnesses.
RECURSIVE seed_vertices(_, _, _)
seed_vertices(sc, v, n) ==
  IF v = n THEN sc ELSE seed_vertices(insert_simplex(sc, <<v>>, 0), v + 1, n)

AnyGarbage == CHOOSE g \in Garbage : TRUE

RECURSIVE pass_of(_, _, _, _, _, _, _)
pass_of(dim, alpha2, W, list, at, sc, keep) ==
  IF at = Len(list) + 1
    THEN [sc |-> sc, list |-> list]
    ELSE Only({
           pass_of(dim, alpha2, W, erase_if_idle(r.ret \/ keep, list, at),
                   advance(r.ret \/ keep, at), r.env.sc, keep)
           : r \in {search(dim, alpha2, sc, W[list[at]], AnyGarbage)}})

RECURSIVE passes_of(_, _, _, _, _, _, _, _)
passes_of(dim, alpha2, limit, W, list, sc, h, keep) ==
  IF ~loop_continues(list, dim, limit)
    THEN [sc |-> sc, dimension |-> dim - 1, hist |-> h]
    ELSE Only({
           passes_of(dim + 1, alpha2, limit, W, p.list, p.sc,
                     Append(h, Range(p.list)), keep)
           : p \in {pass_of(dim, alpha2, W, list, 1, sc, keep)}})

build(n, W, alpha2, limit, keep) ==
  passes_of(1, alpha2, limit, W, [j \in 1..Len(W) |-> j],
            seed_vertices(EmptyComplex, 0, n), <<>>, keep)

\* ------------------------------------------------------------- properties
Succeeded == pc = "idle" /\ returned = "true"

Faces(S) == (SUBSET S) \ {{}, S}

DownwardClosed(sc) == \A S \in DOMAIN sc : \A F \in Faces(S) : F \in DOMAIN sc

Monotone(sc) ==
  \A S \in DOMAIN sc : \A F \in Faces(S) : F \in DOMAIN sc => sc[F] <= sc[S]

\* the target complex after the first n insert_simplex calls of the last search
RECURSIVE Replay(_, _, _)
Replay(sc, ins, n) ==
  IF n = 0 THEN sc
  ELSE insert_simplex(Replay(sc, ins, n - 1), ins[n][1], ins[n][2])

Position(rk, v) == CHOOSE p \in 1..Len(rk) : rk[p].first = v

Perms(n) == {p \in [1..n -> 1..n] : \A a, b \in 1..n : a # b => p[a] # p[b]}

Permuted(W, p) == [j \in 1..Len(W) |-> W[p[j]]]

HighestDimension(sc) == SetMax({Cardinality(S) - 1 : S \in DOMAIN sc})

\* C1: in every state, and after every single
\* insert_simplex the target complex contains every proper non-empty face of
\* each of its simplices.
C1_DownwardClosure ==
  /\ DownwardClosed(complex)
  /\ \A n \in 0..Len(inserted) : DownwardClosed(Replay(scBefore, inserted, n))

C1_Witness ==
  /\ Succeeded
  /\ \E S \in DOMAIN complex : Cardinality(S) = 3
  /\ \E S \in DOMAIN complex : Cardinality(S) = 2 /\ complex[S] > 0

\* C2: in every state of a call, and after every single insert_simplex, no
\* simplex has a filtration value below that of one of its faces, and a
\* search never changes the value of a simplex that was already present.
C2_FiltrationMonotone ==
  /\ Monotone(complex)
  /\ \A n \in 0..Len(inserted) : Monotone(Replay(scBefore, inserted, n))
  /\ pc = "pass" => \A S \in DOMAIN scBefore : complex[S] = scBefore[S]

C2_Witness ==
  /\ pc = "pass"
  /\ \E n \in 1..Len(inserted) :
       /\ Len(inserted[n][1]) = 3
       /\ inserted[n][2] > 0
       /\ Range(inserted[n][1]) \notin DOMAIN scBefore
       /\ \E F \in Faces(Range(inserted[n][1])) :
            Cardinality(F) = 2 /\ complex[F] = 0

\* C3: a call made on a target complex that has a vertex, or with a negative
\* max_alpha_square, or with a negative limit_dimension, returns false, and
\* has performed no insert_simplex and no set_dimension: the target complex
\* and its declared dimension are those at the entry of the call. (A call
\* that goes past the checks had none of the three; a call that wrote one of
\* the three messages returned false and changed nothing.)
C3_NoSideEffects ==
  /\ (pc # "idle" \/ returned = "true") =>
       /\ num_vertices(pre.complex) = 0
       /\ max_alpha_square >= 0
       /\ limit_dimension >= 0
  /\ (pc = "idle" /\ returned # "true") =>
       /\ complex = pre.complex
       /\ dimension = pre.dimension
       /\ ops = 0
  /\ returned = "false" <=> cerr # ""

C3_Witness ==
  /\ returned = "false"
  /\ cerr = "complex is not empty"
  /\ dimension >= 0
  /\ pre.complex = complex
  /\ \E S \in DOMAIN complex : Cardinality(S) = 3

\* C4: when create_complex has returned true, the declared dimension is the
\* largest (number of vertices - 1) over the simplices of the target complex.
C4_DeclaredDimension ==
  Succeeded => dimension = HighestDimension(complex)

C7_IncreasingIds ==
  \A vv \in handed : \A a, b \in 1..Len(vv) : a < b => vv[a] < vv[b]

\* C7 (amended): every vertex list given to find or insert_simplex lists
\* pairwise distinct landmarks in the order of the witness's ranking.
C7_RankingOrder ==
  \A vv \in handed : \A a, b \in 1..Len(vv) :
    a < b => /\ vv[a] # vv[b]
             /\ Position(handedBy, vv[a]) < Position(handedBy, vv[b])

C7_Witness ==
  \E vv \in handed : Len(vv) = 3 /\ vv[1] > vv[2]

\* C8: the complex built equals the complex built by the variant that never
\* erases a witness and runs every pass up to limit_dimension that can still
\* insert a simplex (passes 1..nbL).
C8_DeactivationLosesNothing ==
  Succeeded =>
    LET passes == IF limit_dimension < nbL THEN limit_dimension ELSE nbL
    IN build(nbL, witnesses_, max_alpha_square, passes, TRUE).sc = complex

C8_Witness ==
  /\ Succeeded
  /\ Len(hist) >= 2
  /\ hist[1] = {1, 2}
  /\ Cardinality(hist[2]) = 1
  /\ \E S \in DOMAIN complex : Cardinality(S) = 3

C10_NoReadAtEnd ==
  \A p \in derefs : p < end(handedBy)

====
